---- MODULE Spec2Model ----
(***************************************************************************)
(* The "circle" connection state machine of routers/social.py: the circles *)
(* table (created by migrate_follow_to_circle.py, no uniqueness constraint *)
(* over the pair) and the invite / accept / reject / remove handlers.      *)
(*                                                                         *)
(* Spec        : the handlers run one at a time, each as one atomic action.*)
(* SpecConc    : the handlers run as concurrent requests; every database   *)
(*               query and every commit of a request is one step.          *)
(* SpecMigrate : a database that starts with the follows table, the        *)
(*               migration script, then the handlers.                      *)
(* SpecApi     : the handlers of Spec with the deprecated follow endpoints *)
(*               and the search; of the calls only the searches are        *)
(*               recorded.                                                 *)
(* SpecPasskey : the passkey challenge store of routers/passkey.py and its *)
(*               four handlers.                                            *)
(* SpecCache   : a function wrapped by cache_response of cache.py, called  *)
(*               from two threads while the clock advances.                *)
(***************************************************************************)
EXTENDS Integers, FiniteSets, Sequences, TLC

\* ---------------------------------------------------------------- bounds
\* ids handed out to new rows are 1..MaxId (uuid4 in the code: never reused)
MaxId == 2
\* ---------------------------------------------------------------- users
\* rows of the users table (static here) and one identity with no row
Users == {"u1", "u2", "u3"}
Ghost == "u4"
Ids == Users \cup {Ghost}
\* users whose requests race in SpecConc
ConcUsers == {"u1", "u2"}

VARIABLES circles, nextId, last, pre, req,
          follows_exists, follows, circles_exists,
          challenge_store, credentials, nextChallenge, pk, latest, verified,
          cache_store, now, expire, call

\* the circles table and what the model records about its handlers
social == <<circles, nextId, last, pre, req>>

\* the tables of the database before the migration
tables == <<follows_exists, follows, circles_exists>>

\* the passkey challenge store, the passkey_credentials table and what the
\* model records about the passkey handlers
passkey == <<challenge_store, credentials, nextChallenge, pk, latest, verified>>

\* the response cache of cache.py, the clock, the expire argument of the
\* decorator and the calls of the decorated function that are under way
cache == <<cache_store, now, expire, call>>

\* the state the circle handlers never touch
ext == <<tables, passkey, cache>>

vars == <<circles, nextId, last, pre, req, ext>>

\* ---------------------------------------------------------------- table
\* one row of the circles table
Circle(id, requester_id, receiver_id, status) ==
    [id |-> id, requester_id |-> requester_id, receiver_id |-> receiver_id,
     status |-> status]

\* Query.first(): no row, or any one of the rows the filter lets through
First(rows) == IF rows = {} THEN {{}} ELSE {{c} : c \in rows}

\* mutant: the second and_ of the filter is missing
OneDirection(tbl, a, b) ==
    {c \in tbl : c.requester_id = a /\ c.receiver_id = b}

\* filter or_(and_(requester == a, receiver == b), and_(requester == b, receiver == a))
EitherDirection(tbl, a, b) ==
    {c \in tbl : \/ (c.requester_id = a /\ c.receiver_id = b)
                 \/ (c.requester_id = b /\ c.receiver_id = a)}

\* mutant: the delete is lost
DbDeleteNothing(tbl, row) == tbl

\* db.delete(row); db.commit(): DELETE ... WHERE id = row.id
DbDelete(tbl, row) == {c \in tbl : c.id # row.id}

\* HTTPException(status_code, detail) / a 200 response carrying the row
Response(code, detail, tbl, row) ==
    [status_code |-> code, detail |-> detail, circles |-> tbl, circle |-> row]

\* ---------------------------------------------------------------- errors
\* the detail strings of the HTTPExceptions the handlers raise
\* 400, invite
SelfReference == "You cannot invite yourself"
\* 404, invite
TargetNotFound == "User not found"
\* 400, invite
DuplicateInvite == "You have already sent an invite to this user"
\* 400, invite
ReverseInvitePending == "This user has already sent you an invite. Please accept or reject it."
\* 400, invite
AlreadyConnected == "You are already connected with this user"
\* 404, accept and reject
NoPendingInvite == "No pending invite found from this user"
\* 404, remove
NotConnected == "No connection found with this user"

\* ---------------------------------------------------------------- invite
\* mutant: the lookup only sees the caller's own invites
InviteExistingOneWay(tbl, current_user_id, user_id) ==
    {c \in tbl : c.requester_id = current_user_id /\ c.receiver_id = user_id}

\* mutant: the lookup matches every row the caller is part of
InviteExistingAnyPartner(tbl, current_user_id, user_id) ==
    {c \in tbl : current_user_id \in {c.requester_id, c.receiver_id}}

\* the lookup of the existing relationship
InviteExisting(tbl, current_user_id, user_id) ==
    EitherDirection(tbl, current_user_id, user_id)

\* mutant: requester and receiver swapped in the new row
NewCircleSwapped(id, current_user_id, user_id) ==
    Circle(id, user_id, current_user_id, "pending")

\* the row built and inserted by the handler
NewCircle(id, current_user_id, user_id) ==
    Circle(id, current_user_id, user_id, "pending")

\* mutant: the direction test of a pending row is inverted
InviteCheckSwapped(current_user_id, existing_circle) ==
    IF existing_circle = {}
    THEN [next |-> "insert", status_code |-> 200, detail |-> "Invite sent successfully"]
    ELSE LET e == CHOOSE c \in existing_circle : TRUE IN
         IF e.status = "pending"
         THEN IF e.receiver_id = current_user_id
              THEN [next |-> "raise", status_code |-> 400, detail |-> DuplicateInvite]
              ELSE [next |-> "raise", status_code |-> 400, detail |-> ReverseInvitePending]
         ELSE IF e.status = "accepted"
              THEN [next |-> "raise", status_code |-> 400, detail |-> AlreadyConnected]
              ELSE [next |-> "delete", status_code |-> 200,
                    detail |-> "Invite sent successfully"]

\* mutant: a pending invite of the other party is overwritten like a
\* rejected one
InviteCheckReverseReplaces(current_user_id, existing_circle) ==
    IF existing_circle = {}
    THEN [next |-> "insert", status_code |-> 200, detail |-> "Invite sent successfully"]
    ELSE LET e == CHOOSE c \in existing_circle : TRUE IN
         IF e.status = "pending" /\ e.requester_id = current_user_id
         THEN [next |-> "raise", status_code |-> 400, detail |-> DuplicateInvite]
         ELSE IF e.status = "accepted"
              THEN [next |-> "raise", status_code |-> 400, detail |-> AlreadyConnected]
              ELSE [next |-> "delete", status_code |-> 200,
                    detail |-> "Invite sent successfully"]

\* mutant: the accepted branch is missing, an accepted row is replaced
InviteCheckNoAccepted(current_user_id, existing_circle) ==
    IF existing_circle = {}
    THEN [next |-> "insert", status_code |-> 200, detail |-> "Invite sent successfully"]
    ELSE LET e == CHOOSE c \in existing_circle : TRUE IN
         IF e.status = "pending"
         THEN IF e.requester_id = current_user_id
              THEN [next |-> "raise", status_code |-> 400, detail |-> DuplicateInvite]
              ELSE [next |-> "raise", status_code |-> 400, detail |-> ReverseInvitePending]
         ELSE [next |-> "delete", status_code |-> 200,
               detail |-> "Invite sent successfully"]

\* mutant: a rejected invite is final, the re-invite is refused
InviteCheckRejectedFinal(current_user_id, existing_circle) ==
    IF existing_circle = {}
    THEN [next |-> "insert", status_code |-> 200, detail |-> "Invite sent successfully"]
    ELSE LET e == CHOOSE c \in existing_circle : TRUE IN
         IF e.status = "pending"
         THEN IF e.requester_id = current_user_id
              THEN [next |-> "raise", status_code |-> 400, detail |-> DuplicateInvite]
              ELSE [next |-> "raise", status_code |-> 400, detail |-> ReverseInvitePending]
         ELSE [next |-> "raise", status_code |-> 400, detail |-> AlreadyConnected]

\* what the handler does once existing_circle (a set of 0 or 1 rows) is read:
\* "raise" with a status code and detail, "delete" the rejected row and then
\* insert, or "insert" directly
InviteCheck(current_user_id, existing_circle) ==
    IF existing_circle = {}
    THEN [next |-> "insert", status_code |-> 200, detail |-> "Invite sent successfully"]
    ELSE LET e == CHOOSE c \in existing_circle : TRUE IN
         IF e.status = "pending"
         THEN IF e.requester_id = current_user_id
              THEN [next |-> "raise", status_code |-> 400,
                    detail |-> DuplicateInvite]
              ELSE [next |-> "raise", status_code |-> 400,
                    detail |-> ReverseInvitePending]
         ELSE IF e.status = "accepted"
              THEN [next |-> "raise", status_code |-> 400,
                    detail |-> AlreadyConnected]
              ELSE [next |-> "delete", status_code |-> 200,
                    detail |-> "Invite sent successfully"]

\* mutant: the self-invite check is missing
InviteGuardNoSelfCheck(current_user_id, user_id) ==
    IF user_id \notin Users
    THEN [next |-> "raise", status_code |-> 404, detail |-> TargetNotFound]
    ELSE [next |-> "ok", status_code |-> 200, detail |-> ""]

\* mutant: the lookup of the invited user is missing
InviteGuardNoUserCheck(current_user_id, user_id) ==
    IF user_id = current_user_id
    THEN [next |-> "raise", status_code |-> 400, detail |-> SelfReference]
    ELSE [next |-> "ok", status_code |-> 200, detail |-> ""]

\* the checks made before the table is read: "ok" or the exception raised
InviteGuard(current_user_id, user_id) ==
    IF user_id = current_user_id
    THEN [next |-> "raise", status_code |-> 400, detail |-> SelfReference]
    ELSE IF user_id \notin Users
         THEN [next |-> "raise", status_code |-> 404, detail |-> TargetNotFound]
         ELSE [next |-> "ok", status_code |-> 200, detail |-> ""]

\* the whole handler on table tbl, id being the id the new row would get:
\* the set of its possible responses, each with the table it leaves
invite_to_circle(tbl, id, current_user_id, user_id) ==
    LET g == InviteGuard(current_user_id, user_id) IN
    IF g.next = "raise"
    THEN {Response(g.status_code, g.detail, tbl, {})}
    ELSE {LET d == InviteCheck(current_user_id, ex)
              t == IF d.next = "delete"
                   THEN DbDelete(tbl, CHOOSE c \in ex : TRUE)
                   ELSE tbl
              n == NewCircle(id, current_user_id, user_id)
          IN  IF d.next = "raise"
              THEN Response(d.status_code, d.detail, tbl, {})
              ELSE Response(200, d.detail, t \cup {n}, {n})
          : ex \in First(InviteExisting(tbl, current_user_id, user_id))}

\* ---------------------------------------------------------------- accept
\* mutant: the query forgets the status filter
AcceptAnyStatus(tbl, current_user_id, user_id) ==
    {c \in tbl : c.requester_id = user_id /\ c.receiver_id = current_user_id}

\* mutant: the query matches the pending row in either direction
AcceptEitherDirection(tbl, current_user_id, user_id) ==
    {c \in tbl : /\ \/ (c.requester_id = user_id /\ c.receiver_id = current_user_id)
                    \/ (c.requester_id = current_user_id /\ c.receiver_id = user_id)
                 /\ c.status = "pending"}

\* the query of the accept handler: pending rows from user_id to the caller
AcceptPending(tbl, current_user_id, user_id) ==
    {c \in tbl : /\ c.requester_id = user_id
                 /\ c.receiver_id = current_user_id
                 /\ c.status = "pending"}

\* circle.status = value; db.commit(): UPDATE ... SET status WHERE id = row.id
DbSetStatus(tbl, row, value) ==
    {IF c.id = row.id THEN [c EXCEPT !.status = value] ELSE c : c \in tbl}

accept_circle_invite(tbl, current_user_id, user_id) ==
    IF user_id = current_user_id
    THEN {Response(400, "Cannot accept invite from yourself", tbl, {})}
    ELSE {IF circle = {}
          THEN Response(404, NoPendingInvite, tbl, {})
          ELSE LET c == CHOOSE x \in circle : TRUE IN
               Response(200, "Connection accepted successfully",
                        DbSetStatus(tbl, c, "accepted"),
                        {[c EXCEPT !.status = "accepted"]})
          : circle \in First(AcceptPending(tbl, current_user_id, user_id))}

\* ---------------------------------------------------------------- reject
\* mutant: the query forgets the status filter
RejectAnyStatus(tbl, current_user_id, user_id) ==
    {c \in tbl : c.requester_id = user_id /\ c.receiver_id = current_user_id}

\* the query of the reject handler: pending rows from user_id to the caller
RejectPending(tbl, current_user_id, user_id) ==
    {c \in tbl : /\ c.requester_id = user_id
                 /\ c.receiver_id = current_user_id
                 /\ c.status = "pending"}

\* mutant: the rejected invite is deleted instead of kept
RejectDeletesRow(tbl, current_user_id, user_id) ==
    IF user_id = current_user_id
    THEN {Response(400, "Cannot reject invite from yourself", tbl, {})}
    ELSE {IF circle = {}
          THEN Response(404, NoPendingInvite, tbl, {})
          ELSE LET c == CHOOSE x \in circle : TRUE IN
               Response(200, "Invite rejected", DbDelete(tbl, c),
                        {[c EXCEPT !.status = "rejected"]})
          : circle \in First(RejectPending(tbl, current_user_id, user_id))}

reject_circle_invite(tbl, current_user_id, user_id) ==
    IF user_id = current_user_id
    THEN {Response(400, "Cannot reject invite from yourself", tbl, {})}
    ELSE {IF circle = {}
          THEN Response(404, NoPendingInvite, tbl, {})
          ELSE LET c == CHOOSE x \in circle : TRUE IN
               Response(200, "Invite rejected",
                        DbSetStatus(tbl, c, "rejected"),
                        {[c EXCEPT !.status = "rejected"]})
          : circle \in First(RejectPending(tbl, current_user_id, user_id))}

\* ---------------------------------------------------------------- remove
\* mutant: the query only sees rows the caller requested
RemoveAcceptedOneWay(tbl, current_user_id, user_id) ==
    {c \in tbl : /\ c.requester_id = current_user_id
                 /\ c.receiver_id = user_id
                 /\ c.status = "accepted"}

\* mutant: the query forgets the status filter
RemoveAnyStatus(tbl, current_user_id, user_id) ==
    EitherDirection(tbl, current_user_id, user_id)

\* the query of the remove handler: accepted rows of the pair
RemoveAccepted(tbl, current_user_id, user_id) ==
    {c \in EitherDirection(tbl, current_user_id, user_id) : c.status = "accepted"}

remove_circle_connection(tbl, current_user_id, user_id) ==
    IF user_id = current_user_id
    THEN {Response(400, "Cannot remove yourself from circle", tbl, {})}
    ELSE {IF circle = {}
          THEN Response(404, NotConnected, tbl, {})
          ELSE Response(200, "Connection removed successfully",
                        DbDelete(tbl, CHOOSE x \in circle : TRUE), {})
          : circle \in First(RemoveAccepted(tbl, current_user_id, user_id))}

\* ---------------------------------------------------------------- queries
\* mutant: is_invited_by_me is computed from the receiver
ConnectionStatusOfReceiver(current_user_id, circle) ==
    IF circle = {}
    THEN <<"none", FALSE>>
    ELSE LET c == CHOOSE x \in circle : TRUE IN
         IF c.status = "accepted"
         THEN <<"connected", FALSE>>
         ELSE IF c.status = "pending"
              THEN IF c.receiver_id = current_user_id
                   THEN <<"pending", TRUE>>
                   ELSE <<"pending", FALSE>>
              ELSE <<"none", FALSE>>

\* the answer of get_connection_status once circle (0 or 1 rows) is read
ConnectionStatusOf(current_user_id, circle) ==
    IF circle = {}
    THEN <<"none", FALSE>>
    ELSE LET c == CHOOSE x \in circle : TRUE IN
         IF c.status = "accepted"
         THEN <<"connected", FALSE>>
         ELSE IF c.status = "pending"
              THEN IF c.requester_id = current_user_id
                   THEN <<"pending", TRUE>>
                   ELSE <<"pending", FALSE>>
              ELSE <<"none", FALSE>>

\* (status, is_invited_by_me): the set of answers the query can give
get_connection_status(tbl, current_user_id, other_user_id) ==
    {ConnectionStatusOf(current_user_id, circle) :
        circle \in First(EitherDirection(tbl, current_user_id, other_user_id))}

\* mutant: only the rows the user requested are counted
CountRequesterOnly(tbl, user_id) ==
    Cardinality({c \in tbl : c.requester_id = user_id /\ c.status = "accepted"})

\* count of the rows with the user at either end and status accepted
get_user_connections_count(tbl, user_id) ==
    Cardinality({c \in tbl : /\ (c.requester_id = user_id \/ c.receiver_id = user_id)
                             /\ c.status = "accepted"})

\* connections_count of GET /dashboard for the caller
DashboardConnectionsCount(tbl, current_user_id) ==
    Cardinality({c \in tbl : /\ \/ c.requester_id = current_user_id
                                \/ c.receiver_id = current_user_id
                             /\ c.status = "accepted"})

\* mutant: the connection status is looked up from the listed user's side
BuildResponseOtherSide(tbl, user_id, current_user_id) ==
    {[id |-> user_id, connection_status |-> s[1], is_invited_by_me |-> s[2],
      connections_count |-> get_user_connections_count(tbl, user_id)] :
        s \in get_connection_status(tbl, user_id, current_user_id)}

\* the answers build_circle_user_response can give for the user user_id
\* as seen by current_user_id (profile fields left out)
build_circle_user_response(tbl, user_id, current_user_id) ==
    {[id |-> user_id, connection_status |-> s[1], is_invited_by_me |-> s[2],
      connections_count |-> get_user_connections_count(tbl, user_id)] :
        s \in get_connection_status(tbl, current_user_id, user_id)}

\* a list the handlers build with one item per row read, items being the
\* pairs <<row id, id of the user to show>>: one entry per row, tagged with
\* the row's id, user being the responses the item can be; a row whose
\* user is not in the users table gives no item
UserList(tbl, items, current_user_id) ==
    {[circle |-> i[1],
      user |-> build_circle_user_response(tbl, i[2], current_user_id)] :
        i \in {x \in items : x[2] \in Users}}

\* mutant: the received query forgets the status filter
ReceivedCirclesAnyStatus(tbl, current_user_id) ==
    {c \in tbl : c.receiver_id = current_user_id}

\* pending rows where the caller is the receiver
ReceivedCircles(tbl, current_user_id) ==
    {c \in tbl : c.receiver_id = current_user_id /\ c.status = "pending"}

\* pending rows where the caller is the requester
SentCircles(tbl, current_user_id) ==
    {c \in tbl : c.requester_id = current_user_id /\ c.status = "pending"}

\* GET /circle/pending
get_pending_invites(tbl, current_user_id) ==
    [received_invites |->
        UserList(tbl, {<<c.id, c.requester_id>> :
                          c \in ReceivedCircles(tbl, current_user_id)},
                 current_user_id),
     sent_invites |->
        UserList(tbl, {<<c.id, c.receiver_id>> :
                          c \in SentCircles(tbl, current_user_id)},
                 current_user_id)]

\* mutant: the other user is always taken from receiver_id
OtherUserAlwaysReceiver(user_id, circle) == circle.receiver_id

\* the other user in the connection
OtherUser(user_id, circle) ==
    IF circle.requester_id = user_id THEN circle.receiver_id
    ELSE circle.requester_id

\* accepted rows with the user at either end
ConnectionCircles(tbl, user_id) ==
    {c \in tbl : \/ (c.requester_id = user_id /\ c.status = "accepted")
                 \/ (c.receiver_id = user_id /\ c.status = "accepted")}

\* GET /circle/connections/{user_id}
get_user_connections(tbl, user_id, current_user_id) ==
    LET connections == UserList(tbl, {<<c.id, OtherUser(user_id, c)>> :
                                         c \in ConnectionCircles(tbl, user_id)},
                                current_user_id)
    IN  [connections |-> connections, total_count |-> Cardinality(connections)]

\* ---------------------------------------------------------------- search
\* the searchable columns of the users rows, strings as tuples of
\* characters; email is nullable
Null == <<"NULL">>

UserFields ==
    [u1 |-> [username |-> <<"a", "l">>, fullname |-> <<"A", "l">>,
             email |-> <<"a", "@", "x">>],
     u2 |-> [username |-> <<"b", "o">>, fullname |-> <<"B", "o">>,
             email |-> Null],
     u3 |-> [username |-> <<"a", "l", "b">>, fullname |-> <<"L", "a">>,
             email |-> <<"l", "@", "x">>]]

\* the search strings tried (min_length = 1)
Queries == {<<"a">>, <<"B", "O">>, <<"%">>, <<"_", "l">>, <<"@">>, <<"z">>}

\* the limits tried (ge = 1, le = 50)
Limits == {1, 50}

\* case folding of ILIKE, over the letters in use
Lower(ch) ==
    CASE ch = "A" -> "a"
      [] ch = "B" -> "b"
      [] ch = "L" -> "l"
      [] ch = "O" -> "o"
      [] OTHER -> ch

\* s LIKE p without regard to case: % is any run of characters, _ is any
\* one character
RECURSIVE Like(_, _)
Like(p, s) ==
    IF p = <<>>
    THEN s = <<>>
    ELSE IF Head(p) = "%"
         THEN Like(Tail(p), s) \/ (s # <<>> /\ Like(p, Tail(s)))
         ELSE /\ s # <<>>
              /\ (Head(p) = "_" \/ Lower(Head(p)) = Lower(Head(s)))
              /\ Like(Tail(p), Tail(s))

\* column.ilike(f"%{q}%"); NULL matches nothing
ILike(column, q) ==
    column # Null /\ Like(<<"%">> \o q \o <<"%">>, column)

\* the users rows the first filter lets through: username, fullname or
\* email ILIKE %q%
Matching(q) ==
    {u \in Users : \/ ILike(UserFields[u].username, q)
                   \/ ILike(UserFields[u].fullname, q)
                   \/ ILike(UserFields[u].email, q)}

\* Matching, worked out once for the search strings tried
MatchTable == [q \in Queries |-> Matching(q)]

\* the users rows the two filters of the search let through
SearchMatches(q, current_user_id) ==
    {u \in MatchTable[q] : u # current_user_id}

\* .limit(limit).all(): without ORDER BY, any limit of the matching rows
Limited(rows, limit) ==
    {S \in SUBSET rows :
        Cardinality(S) = (IF Cardinality(rows) < limit THEN Cardinality(rows)
                          ELSE limit)}

\* GET /search: the lists the handler can return, a list being one entry
\* per user found, user being the responses build_circle_user_response can
\* give for it
search_users(tbl, q, limit, current_user_id) ==
    {{[id |-> u, user |-> build_circle_user_response(tbl, u, current_user_id)] :
         u \in users} :
        users \in Limited(SearchMatches(q, current_user_id), limit)}

\* ---------------------------------------------------------------- follow
\* mutant: the follow of the old model, a connection made at once
FollowConnectsAtOnce(tbl, id, current_user_id, user_id) ==
    LET g == InviteGuard(current_user_id, user_id) IN
    IF g.next = "raise"
    THEN {Response(g.status_code, g.detail, tbl, {})}
    ELSE IF EitherDirection(tbl, current_user_id, user_id) # {}
         THEN {Response(400, AlreadyConnected, tbl, {})}
         ELSE LET n == Circle(id, current_user_id, user_id, "accepted") IN
              {Response(200, "Invite sent successfully", tbl \cup {n}, {n})}

\* POST /follow/{user_id}
follow_user_deprecated(tbl, id, current_user_id, user_id) ==
    invite_to_circle(tbl, id, current_user_id, user_id)

\* DELETE /unfollow/{user_id}
unfollow_user_deprecated(tbl, current_user_id, user_id) ==
    remove_circle_connection(tbl, current_user_id, user_id)

\* GET /followers/{user_id}
get_followers_deprecated(tbl, user_id, current_user_id) ==
    get_user_connections(tbl, user_id, current_user_id).connections

\* GET /following/{user_id}
get_following_deprecated(tbl, user_id, current_user_id) ==
    get_user_connections(tbl, user_id, current_user_id).connections

\* ---------------------------------------------------------------- cache
\* the clock stops at MaxTime
MaxTime == 3

\* the threads that call the decorated function
Threads == {1, 2}

\* the values the decorated function returns
Values == {"v1", "v2"}

\* the expire arguments tried
Expires == {0, 1, 2}

\* the default prefix
Prefix == <<"c", "a", "c", "h", "e">>

\* the positional arguments of the calls, already as str(arg): ("1",),
\* ("1", "2") and ("1:2",)
Args == {<< <<"1">> >>, << <<"1">>, <<"2">> >>, << <<"1", ":", "2">> >>}

\* ":".join(key_parts)
RECURSIVE Join(_)
Join(key_parts) ==
    IF Len(key_parts) = 1
    THEN Head(key_parts)
    ELSE Head(key_parts) \o <<":">> \o Join(Tail(key_parts))

\* get_cache_key(prefix, *args), no keyword arguments
get_cache_key(prefix, args) == Join(<<prefix>> \o args)

\* the keys the calls can make
CacheKeys == {get_cache_key(Prefix, args) : args \in Args}

\* mutant: an entry aged exactly expire is still served
FreshInclusive(time, timestamp, e) == time - timestamp <= e

\* time.time() - timestamp < expire
Fresh(time, timestamp, e) == time - timestamp < e

\* no call under way in a thread
NoCall == [pc |-> "idle", key |-> <<>>, age |-> -1, hit |-> FALSE, value |-> ""]

\* the wrapper up to its first return: with the lock held, the entry of the
\* key is looked up and, when it is fresh, returned; age is the age of the
\* entry found, -1 when there is none
CallCheck(t, args) ==
    /\ call[t].pc = "idle"
    /\ LET cache_key == get_cache_key(Prefix, args)
           found == cache_store[cache_key]
       IN  IF found # {} /\ \A c \in found : Fresh(now, c.timestamp, expire)
           THEN call' = [call EXCEPT ![t] =
                    [pc |-> "done", key |-> cache_key,
                     age |-> now - (CHOOSE c \in found : TRUE).timestamp,
                     hit |-> TRUE,
                     value |-> (CHOOSE c \in found : TRUE).cached_data]]
           ELSE call' = [call EXCEPT ![t] =
                    [pc |-> "exec", key |-> cache_key,
                     age |-> IF found = {} THEN -1
                             ELSE now - (CHOOSE c \in found : TRUE).timestamp,
                     hit |-> FALSE, value |-> ""]]
    /\ UNCHANGED <<cache_store, now, expire, social, tables, passkey>>

\* result = func(*args, **kwargs), outside the lock
CallExec(t, result) ==
    /\ call[t].pc = "exec"
    /\ call' = [call EXCEPT ![t].pc = "store", ![t].value = result]
    /\ UNCHANGED <<cache_store, now, expire, social, tables, passkey>>

\* func raises: the wrapper stores nothing
CallRaise(t) ==
    /\ call[t].pc = "exec"
    /\ call' = [call EXCEPT ![t] = NoCall]
    /\ UNCHANGED <<cache_store, now, expire, social, tables, passkey>>

\* with the lock held: _cache_store[cache_key] = (result, time.time())
CallStore(t) ==
    /\ call[t].pc = "store"
    /\ cache_store' = [cache_store EXCEPT ![call[t].key] =
                          {[cached_data |-> call[t].value, timestamp |-> now]}]
    /\ call' = [call EXCEPT ![t].pc = "done"]
    /\ UNCHANGED <<now, expire, social, tables, passkey>>

\* the wrapper has returned
CallReturn(t) ==
    /\ call[t].pc = "done"
    /\ call' = [call EXCEPT ![t] = NoCall]
    /\ UNCHANGED <<cache_store, now, expire, social, tables, passkey>>

\* clear_cache(): every entry is removed
ClearCache ==
    /\ \E k \in CacheKeys : cache_store[k] # {}
    /\ cache_store' = [k \in CacheKeys |-> {}]
    /\ UNCHANGED <<now, expire, call, social, tables, passkey>>

\* a second passes
Tick ==
    /\ now < MaxTime
    /\ now' = now + 1
    /\ UNCHANGED <<cache_store, expire, call, social, tables, passkey>>

NextCache ==
    \/ \E t \in Threads, args \in Args : CallCheck(t, args)
    \/ \E t \in Threads, result \in Values : CallExec(t, result)
    \/ \E t \in Threads : CallRaise(t)
    \/ \E t \in Threads : CallStore(t)
    \/ \E t \in Threads : CallReturn(t)
    \/ ClearCache
    \/ Tick

\* ---------------------------------------------------------------- passkey
\* a missing field of a request (dict.get gives None)
None == "None"

\* the emails the passkey requests name: those of the users rows that have
\* one, and one that no user has
Emails == {<<"a", "@", "x">>, <<"l", "@", "x">>, <<"n", "@", "x">>}

\* the credential ids the clients send
CredentialIds == {"k1", "k2"}

\* challenges are random strings: the model numbers them, none comes twice
MaxChallenge == 3

\* get_user_by_email: no user, or the user with that email
get_user_by_email(email) ==
    First({u \in Users : UserFields[u].email = email})

\* one entry of challenge_store; challenge_store maps an email to the set
\* of its entries, none or one
Entry(challenge, user_id, type) ==
    [challenge |-> challenge, user_id |-> user_id, type |-> type]

\* 400, both verify handlers
InvalidChallenge == "Invalid or expired challenge"

\* an answer of a passkey handler: the status code and detail, the store
\* and the credentials table it leaves, and the challenge it issued or
\* verified (0 when none)
PasskeyAnswer(code, detail, store, creds, challenge) ==
    [status_code |-> code, detail |-> detail, challenge_store |-> store,
     credentials |-> creds, challenge |-> challenge]

\* GET /register/challenge, challenge being the value generate_challenge
\* gives
get_registration_challenge(store, creds, challenge, email) ==
    {IF user = {}
     THEN PasskeyAnswer(404, "User not found", store, creds, 0)
     ELSE LET u == CHOOSE x \in user : TRUE IN
          PasskeyAnswer(200, "", [store EXCEPT ![email] =
                                     {Entry(challenge, u, "registration")}],
                        creds, challenge)
     : user \in get_user_by_email(email)}

\* GET /login/challenge
get_login_challenge(store, creds, challenge, email) ==
    {IF user = {}
     THEN PasskeyAnswer(404, "User not found", store, creds, 0)
     ELSE LET u == CHOOSE x \in user : TRUE IN
          IF {c \in creds : c.user_id = u} = {}
          THEN PasskeyAnswer(400, "No passkeys registered for this user",
                             store, creds, 0)
          ELSE PasskeyAnswer(200, "", [store EXCEPT ![email] =
                                          {Entry(challenge, u, "authentication")}],
                             creds, challenge)
     : user \in get_user_by_email(email)}

\* verify_registration_response / verify_authentication_response of the
\* webauthn library: it raises unless the response is for the expected
\* challenge and its signature verifies
Verifies(credential, expected_challenge) ==
    credential.challenge = expected_challenge /\ credential.valid

\* mutant: the entry is not removed after the verification
PopNothing(store, email) == store

\* dict.pop(email, None)
Pop(store, email) == [store EXCEPT ![email] = {}]

\* the check both verify handlers start with: an entry, of the handler's
\* type
ChallengeCheck(stored_data, type) ==
    stored_data # {} /\ \A d \in stored_data : d.type = type

\* POST /register/verify, credential being the client's response: its id,
\* whether it has clientDataJSON, the challenge it answers and whether its
\* signature verifies
verify_registration(store, creds, email, credential) ==
    IF ~ChallengeCheck(store[email], "registration")
    THEN PasskeyAnswer(400, InvalidChallenge, store, creds, 0)
    ELSE LET stored_data == CHOOSE d \in store[email] : TRUE IN
         IF ~credential.has_client_data \/ credential.id = None
         THEN PasskeyAnswer(400, "Verification failed", store, creds, 0)
         ELSE IF ~Verifies(credential, stored_data.challenge)
              THEN PasskeyAnswer(400, "Verification failed", store, creds, 0)
              ELSE IF \E c \in creds : c.credential_id = credential.id
                   THEN PasskeyAnswer(400, "Verification failed", store, creds, 0)
                   ELSE PasskeyAnswer(200, "Passkey registered successfully",
                            Pop(store, email),
                            creds \cup {[credential_id |-> credential.id,
                                         user_id |-> stored_data.user_id]},
                            stored_data.challenge)

\* POST /login/verify
verify_login(store, creds, email, credential) ==
    IF ~ChallengeCheck(store[email], "authentication")
    THEN PasskeyAnswer(400, InvalidChallenge, store, creds, 0)
    ELSE LET stored_data == CHOOSE d \in store[email] : TRUE IN
         IF credential.id = None
         THEN PasskeyAnswer(400, "Authentication failed", store, creds, 0)
         ELSE IF ~\E c \in creds : /\ c.credential_id = credential.id
                                   /\ c.user_id = stored_data.user_id
              THEN PasskeyAnswer(400, "Authentication failed", store, creds, 0)
              ELSE IF ~Verifies(credential, stored_data.challenge)
                   THEN PasskeyAnswer(400, "Authentication failed", store, creds, 0)
                   ELSE PasskeyAnswer(200, "Authentication successful",
                            Pop(store, email), creds, stored_data.challenge)

\* the responses the clients send
Credentials ==
    [id : CredentialIds \cup {None}, has_client_data : BOOLEAN,
     challenge : 0..MaxChallenge, valid : BOOLEAN]

\* the passkey and cache state of a fresh process: empty stores, no
\* credential yet, no call under way
InitStores ==
    /\ challenge_store = [e \in Emails |-> {}]
    /\ credentials = {}
    /\ nextChallenge = 1
    /\ pk = [op |-> "none", email |-> <<>>, type |-> None, status_code |-> 0,
             detail |-> "", challenge |-> 0]
    /\ latest = [e \in Emails |-> {}]
    /\ verified = [c \in 1..MaxChallenge |-> 0]
    /\ cache_store = [k \in CacheKeys |-> {}]
    /\ now = 0
    /\ call = [t \in Threads |-> NoCall]

\* a passkey handler has answered rsp; for the record: the operation and
\* its answer (pk), per email the challenge issued last and its type
\* (latest), and per challenge the number of verifications answered 200
\* (verified)
PasskeyAnswered(op, type, email, rsp) ==
    /\ challenge_store' = rsp.challenge_store
    /\ credentials' = rsp.credentials
    /\ pk' = [op |-> op, email |-> email, type |-> type,
              status_code |-> rsp.status_code, detail |-> rsp.detail,
              challenge |-> rsp.challenge]
    /\ latest' = IF op = "challenge" /\ rsp.status_code = 200
                 THEN [latest EXCEPT ![email] =
                          {[challenge |-> rsp.challenge, type |-> type]}]
                 ELSE latest
    /\ verified' = IF op = "verify" /\ rsp.status_code = 200
                   THEN [verified EXCEPT ![rsp.challenge] = @ + 1]
                   ELSE verified
    /\ UNCHANGED <<social, tables, cache>>

RegistrationChallenge(email) ==
    /\ nextChallenge <= MaxChallenge
    /\ \E rsp \in get_registration_challenge(challenge_store, credentials,
                                             nextChallenge, email) :
          /\ PasskeyAnswered("challenge", "registration", email, rsp)
          /\ nextChallenge' = nextChallenge + 1

LoginChallenge(email) ==
    /\ nextChallenge <= MaxChallenge
    /\ \E rsp \in get_login_challenge(challenge_store, credentials,
                                      nextChallenge, email) :
          /\ PasskeyAnswered("challenge", "authentication", email, rsp)
          /\ nextChallenge' = nextChallenge + 1

RegistrationVerify(email, credential) ==
    /\ PasskeyAnswered("verify", "registration", email,
                       verify_registration(challenge_store, credentials,
                                           email, credential))
    /\ UNCHANGED nextChallenge

LoginVerify(email, credential) ==
    /\ PasskeyAnswered("verify", "authentication", email,
                       verify_login(challenge_store, credentials, email,
                                    credential))
    /\ UNCHANGED nextChallenge

NextPasskey ==
    \/ \E email \in Emails : RegistrationChallenge(email)
    \/ \E email \in Emails : LoginChallenge(email)
    \/ \E email \in Emails, credential \in Credentials :
          RegistrationVerify(email, credential)
    \/ \E email \in Emails, credential \in Credentials :
          LoginVerify(email, credential)

\* ---------------------------------------------------------------- state
NoOp == [op |-> "none", cur |-> Ghost, uid |-> Ghost, status_code |-> 0,
         detail |-> ""]

Idle == [pc |-> "idle", op |-> "none", cur |-> Ghost, uid |-> Ghost,
         row |-> {}, status_code |-> 0, detail |-> "", overlap |-> {}]

\* the requests that can be in flight at once (SpecConc)
Reqs == {1, 2}

Init ==
    /\ circles = {}
    /\ nextId = 1
    /\ last = NoOp
    /\ pre = {}
    /\ req = [r \in Reqs |-> Idle]
    /\ follows_exists = FALSE
    /\ follows = {}
    /\ circles_exists = TRUE
    /\ InitStores
    /\ expire = 60

\* a handler has run atomically and answered rsp: the table it leaves, and
\* for the record the operation, its answer and the table it started from
Answer(op, cur, uid, rsp) ==
    /\ circles' = rsp.circles
    /\ last' = [op |-> op, cur |-> cur, uid |-> uid,
                status_code |-> rsp.status_code, detail |-> rsp.detail]
    /\ pre' = circles
    /\ UNCHANGED <<req, ext>>

\* POST /circle/invite/{user_id}
Invite(cur, uid) ==
    \E rsp \in invite_to_circle(circles, nextId, cur, uid) :
        /\ rsp.status_code = 200 => nextId <= MaxId
        /\ nextId' = IF rsp.status_code = 200 THEN nextId + 1 ELSE nextId
        /\ Answer("invite", cur, uid, rsp)

\* POST /circle/accept/{user_id}
Accept(cur, uid) ==
    \E rsp \in accept_circle_invite(circles, cur, uid) :
        /\ Answer("accept", cur, uid, rsp)
        /\ UNCHANGED nextId

\* POST /circle/reject/{user_id}
Reject(cur, uid) ==
    \E rsp \in reject_circle_invite(circles, cur, uid) :
        /\ Answer("reject", cur, uid, rsp)
        /\ UNCHANGED nextId

\* DELETE /circle/remove/{user_id}
Remove(cur, uid) ==
    \E rsp \in remove_circle_connection(circles, cur, uid) :
        /\ Answer("remove", cur, uid, rsp)
        /\ UNCHANGED nextId

Next ==
    \/ \E cur \in Users, uid \in Ids : Invite(cur, uid)
    \/ \E cur \in Users, uid \in Ids : Accept(cur, uid)
    \/ \E cur \in Users, uid \in Ids : Reject(cur, uid)
    \/ \E cur \in Users, uid \in Ids : Remove(cur, uid)

Spec == Init /\ [][Next]_vars

\* ---------------------------------------------------------------- api
\* the answer of an endpoint that writes, applied to the table; under this
\* specification only the searches are recorded in last and pre
Serve(rsp) ==
    /\ circles' = rsp.circles
    /\ last' = NoOp
    /\ pre' = {}
    /\ UNCHANGED <<req, ext>>

\* POST /follow/{user_id}
Follow(cur, uid) ==
    \E rsp \in follow_user_deprecated(circles, nextId, cur, uid) :
        /\ rsp.status_code = 200 => nextId <= MaxId
        /\ nextId' = IF rsp.status_code = 200 THEN nextId + 1 ELSE nextId
        /\ Serve(rsp)

\* DELETE /unfollow/{user_id}
Unfollow(cur, uid) ==
    \E rsp \in unfollow_user_deprecated(circles, cur, uid) :
        /\ Serve(rsp)
        /\ UNCHANGED nextId

\* GET /search with some query and limit: the handler adds nothing, changes
\* nothing and commits nothing
Search(cur) ==
    /\ \E q \in Queries, limit \in Limits :
          search_users(circles, q, limit, cur) # {}
    /\ last' = [NoOp EXCEPT !.op = "search", !.cur = cur, !.status_code = 200]
    /\ pre' = circles
    /\ UNCHANGED <<circles, nextId, req, ext>>

\* the router with its deprecated endpoints and the search
NextApi ==
    \/ \E cur \in Users, uid \in Ids :
          \E rsp \in invite_to_circle(circles, nextId, cur, uid) :
             /\ rsp.status_code = 200 => nextId <= MaxId
             /\ nextId' = IF rsp.status_code = 200 THEN nextId + 1 ELSE nextId
             /\ Serve(rsp)
    \/ \E cur \in Users, uid \in Ids :
          \E rsp \in accept_circle_invite(circles, cur, uid) :
             Serve(rsp) /\ UNCHANGED nextId
    \/ \E cur \in Users, uid \in Ids :
          \E rsp \in reject_circle_invite(circles, cur, uid) :
             Serve(rsp) /\ UNCHANGED nextId
    \/ \E cur \in Users, uid \in Ids :
          \E rsp \in remove_circle_connection(circles, cur, uid) :
             Serve(rsp) /\ UNCHANGED nextId
    \/ \E cur \in Users, uid \in Ids : Follow(cur, uid)
    \/ \E cur \in Users, uid \in Ids : Unfollow(cur, uid)
    \/ \E cur \in Users : Search(cur)

SpecApi == Init /\ [][NextApi]_vars

SpecPasskey == Init /\ [][NextPasskey]_vars

\* a fresh process whose decorator was given one of the expire arguments
InitCache ==
    /\ circles = {}
    /\ nextId = 1
    /\ last = NoOp
    /\ pre = {}
    /\ req = [r \in Reqs |-> Idle]
    /\ follows_exists = FALSE
    /\ follows = {}
    /\ circles_exists = TRUE
    /\ InitStores
    /\ expire \in Expires

SpecCache == InitCache /\ [][NextCache]_vars

\* ---------------------------------------------------------------- requests
\* The same handlers as concurrent requests, each with its own session:
\* a query reads the committed table, a commit writes it, and other
\* requests run in between (no lock, no constraint over the pair).
InFlight(r) == req[r].pc \notin {"idle", "done"}

\* request r starts: it overlaps every request in flight
Started(r, op, cur, uid, pc, row, code, detail) ==
    req' = [q \in Reqs |->
              IF q = r
              THEN [pc |-> pc, op |-> op, cur |-> cur, uid |-> uid, row |-> row,
                    status_code |-> code, detail |-> detail,
                    overlap |-> {o \in Reqs \ {r} : InFlight(o)}]
              ELSE IF InFlight(q)
                   THEN [req[q] EXCEPT !.overlap = @ \cup {r}]
                   ELSE req[q]]

\* request r moves on to pc, or answers when pc = "done"
Moved(r, pc, code, detail) ==
    req' = [req EXCEPT ![r].pc = pc, ![r].status_code = code,
                       ![r].detail = detail,
                       ![r].row = IF pc = "done" THEN {} ELSE @]

\* invite: the checks and the lookup of the existing relationship
InviteRead(r, cur, uid) ==
    /\ req[r].pc = "idle"
    /\ LET g == InviteGuard(cur, uid) IN
       IF g.next = "raise"
       THEN Started(r, "invite", cur, uid, "done", {}, g.status_code, g.detail)
       ELSE \E ex \in First(InviteExisting(circles, cur, uid)) :
               LET d == InviteCheck(cur, ex) IN
               IF d.next = "raise"
               THEN Started(r, "invite", cur, uid, "done", {}, d.status_code, d.detail)
               ELSE Started(r, "invite", cur, uid, d.next, ex, 0, "")
    /\ UNCHANGED <<circles, nextId, last, pre, ext>>

\* invite: db.delete(existing_circle); db.commit()
InviteDelete(r) ==
    /\ req[r].pc = "delete"
    /\ circles' = DbDelete(circles, CHOOSE c \in req[r].row : TRUE)
    /\ Moved(r, "insert", 0, "")
    /\ UNCHANGED <<nextId, last, pre, ext>>

\* invite: db.add(circle); db.commit()
InviteInsert(r) ==
    /\ req[r].pc = "insert"
    /\ nextId <= MaxId
    /\ LET n == NewCircle(nextId, req[r].cur, req[r].uid) IN
       /\ circles' = circles \cup {n}
       /\ req' = [req EXCEPT ![r].pc = "refresh", ![r].row = {n}]
    /\ nextId' = nextId + 1
    /\ UNCHANGED <<last, pre, ext>>

\* accept: the lookup of the pending invite
AcceptRead(r, cur, uid) ==
    /\ req[r].pc = "idle"
    /\ IF uid = cur
       THEN Started(r, "accept", cur, uid, "done", {}, 400,
                    "Cannot accept invite from yourself")
       ELSE \E circle \in First(AcceptPending(circles, cur, uid)) :
               IF circle = {}
               THEN Started(r, "accept", cur, uid, "done", {}, 404, NoPendingInvite)
               ELSE Started(r, "accept", cur, uid, "update", circle, 0, "")
    /\ UNCHANGED <<circles, nextId, last, pre, ext>>

\* reject: the lookup of the pending invite
RejectRead(r, cur, uid) ==
    /\ req[r].pc = "idle"
    /\ IF uid = cur
       THEN Started(r, "reject", cur, uid, "done", {}, 400,
                    "Cannot reject invite from yourself")
       ELSE \E circle \in First(RejectPending(circles, cur, uid)) :
               IF circle = {}
               THEN Started(r, "reject", cur, uid, "done", {}, 404, NoPendingInvite)
               ELSE Started(r, "reject", cur, uid, "update", circle, 0, "")
    /\ UNCHANGED <<circles, nextId, last, pre, ext>>

\* accept, reject: circle.status = ...; db.commit(). The UPDATE names the
\* row by id; when the row is gone the commit raises (500)
StatusCommit(r) ==
    /\ req[r].pc = "update"
    /\ LET c == CHOOSE x \in req[r].row : TRUE
           value == IF req[r].op = "accept" THEN "accepted" ELSE "rejected"
       IN  IF c.id \in {x.id : x \in circles}
           THEN /\ circles' = DbSetStatus(circles, c, value)
                /\ Moved(r, "refresh", 0, "")
           ELSE /\ circles' = circles
                /\ Moved(r, "done", 500, "Internal Server Error")
    /\ UNCHANGED <<nextId, last, pre, ext>>

\* invite, accept, reject: db.refresh(circle) and the 200 response; when
\* the row is gone the refresh raises (500)
Refresh(r) ==
    /\ req[r].pc = "refresh"
    /\ LET c == CHOOSE x \in req[r].row : TRUE IN
       IF c.id \in {x.id : x \in circles}
       THEN Moved(r, "done", 200, "")
       ELSE Moved(r, "done", 500, "Internal Server Error")
    /\ UNCHANGED <<circles, nextId, last, pre, ext>>

\* remove: the lookup of the accepted row
RemoveRead(r, cur, uid) ==
    /\ req[r].pc = "idle"
    /\ IF uid = cur
       THEN Started(r, "remove", cur, uid, "done", {}, 400,
                    "Cannot remove yourself from circle")
       ELSE \E circle \in First(RemoveAccepted(circles, cur, uid)) :
               IF circle = {}
               THEN Started(r, "remove", cur, uid, "done", {}, 404, NotConnected)
               ELSE Started(r, "remove", cur, uid, "remove", circle, 0, "")
    /\ UNCHANGED <<circles, nextId, last, pre, ext>>

\* remove: db.delete(circle); db.commit() and the 200 response
RemoveDelete(r) ==
    /\ req[r].pc = "remove"
    /\ circles' = DbDelete(circles, CHOOSE c \in req[r].row : TRUE)
    /\ Moved(r, "done", 200, "")
    /\ UNCHANGED <<nextId, last, pre, ext>>

\* the response of r has been sent; its slot takes the next request
Respond(r) ==
    /\ req[r].pc = "done"
    /\ req' = [q \in Reqs |->
                 IF q = r THEN Idle
                 ELSE [req[q] EXCEPT !.overlap = @ \ {r}]]
    /\ UNCHANGED <<circles, nextId, last, pre, ext>>

NextConc ==
    \/ \E r \in Reqs, cur \in ConcUsers, uid \in ConcUsers : InviteRead(r, cur, uid)
    \/ \E r \in Reqs : InviteDelete(r)
    \/ \E r \in Reqs : InviteInsert(r)
    \/ \E r \in Reqs, cur \in ConcUsers, uid \in ConcUsers : AcceptRead(r, cur, uid)
    \/ \E r \in Reqs, cur \in ConcUsers, uid \in ConcUsers : RejectRead(r, cur, uid)
    \/ \E r \in Reqs : StatusCommit(r)
    \/ \E r \in Reqs : Refresh(r)
    \/ \E r \in Reqs, cur \in ConcUsers, uid \in ConcUsers : RemoveRead(r, cur, uid)
    \/ \E r \in Reqs : RemoveDelete(r)
    \/ \E r \in Reqs : Respond(r)

SpecConc == Init /\ [][NextConc]_vars

\* ---------------------------------------------------------------- migration
\* one row of the follows table: follower_id follows following_id
FollowRow(id, follower_id, following_id) ==
    [id |-> id, follower_id |-> follower_id, following_id |-> following_id]

\* the rows the follows table may hold when the migration runs (ids are
\* uuids: none is an id the handlers hand out); nothing keeps two users
\* from following each other
FollowRows == {FollowRow(101, "u1", "u2"), FollowRow(102, "u2", "u1")}

\* INSERT INTO circles SELECT id, follower_id, following_id, 'accepted'
\* FROM follows
MigratedCircles(rows) ==
    {Circle(f.id, f.follower_id, f.following_id, "accepted") : f \in rows}

\* a database from before the circle model: no circles table, and maybe a
\* follows table with rows
InitMigrate ==
    /\ circles = {}
    /\ nextId = 1
    /\ last = NoOp
    /\ pre = {}
    /\ req = [r \in Reqs |-> Idle]
    /\ circles_exists = FALSE
    /\ follows_exists \in BOOLEAN
    /\ follows \in (IF follows_exists THEN SUBSET FollowRows ELSE {{}})
    /\ InitStores
    /\ expire = 60

\* python migrate_follow_to_circle.py
Migrate ==
    /\ IF circles_exists
       THEN UNCHANGED <<circles, tables>>
       ELSE IF ~follows_exists
            THEN /\ circles' = {}
                 /\ circles_exists' = TRUE
                 /\ UNCHANGED <<follows_exists, follows>>
            ELSE /\ circles' = MigratedCircles(follows)
                 /\ circles_exists' = TRUE
                 /\ follows' = {}
                 /\ follows_exists' = FALSE
    /\ last' = [NoOp EXCEPT !.op = "migrate"]
    /\ pre' = circles
    /\ UNCHANGED <<nextId, req, passkey, cache>>

\* the handlers are served once the circles table is there
NextMigrate ==
    \/ Migrate
    \/ circles_exists /\ \E cur \in ConcUsers, uid \in ConcUsers : Invite(cur, uid)
    \/ circles_exists /\ \E cur \in ConcUsers, uid \in ConcUsers : Accept(cur, uid)
    \/ circles_exists /\ \E cur \in ConcUsers, uid \in ConcUsers : Reject(cur, uid)
    \/ circles_exists /\ \E cur \in ConcUsers, uid \in ConcUsers : Remove(cur, uid)

SpecMigrate == InitMigrate /\ [][NextMigrate]_vars

\* ================================================================ claims
\* rows of tbl whose {requester, receiver} set is {a, b}
RowsOfPair(tbl, a, b) ==
    {c \in tbl : {c.requester_id, c.receiver_id} = {a, b}}

RowIds(tbl) == {c.id : c \in tbl}

\* C1: after any sequence of Invite, Accept, Reject and Remove, each run as
\* one atomic operation, the table holds at most one row per unordered pair
\* of users, whatever the status of the row.
AtMostOneRowPerPair ==
    \A c1 \in circles : \A c2 \in circles :
        {c1.requester_id, c1.receiver_id} = {c2.requester_id, c2.receiver_id}
            => c1 = c2

\* an invite was refused because the other party's row was found, and
\* another pair has a row as well
W_AtMostOneRowPerPair ==
    /\ last.op = "invite"
    /\ last.detail = ReverseInvitePending
    /\ Cardinality(RowsOfPair(circles, last.cur, last.uid)) = 1
    /\ Cardinality(circles) = 2

\* C2: when two Invite requests for the same unordered pair overlap, at most
\* one of them is answered 200, and the table never holds two rows of one
\* pair.
ConcurrentInvitesOneRow ==
    /\ \A c1 \in circles : \A c2 \in circles :
          RowsOfPair({c2}, c1.requester_id, c1.receiver_id) # {} => c1 = c2
    /\ \A r1 \in Reqs : \A r2 \in Reqs \ {r1} :
          ~ /\ req[r1].op = "invite" /\ req[r2].op = "invite"
            /\ {req[r1].cur, req[r1].uid} = {req[r2].cur, req[r2].uid}
            /\ r2 \in req[r1].overlap
            /\ req[r1].pc = "done" /\ req[r2].pc = "done"
            /\ req[r1].status_code = 200 /\ req[r2].status_code = 200

\* C3: Accept(currentUser, otherUser) and Reject(currentUser, otherUser)
\* answer 200 only when a pending row from otherUser to currentUser exists;
\* the requester of a pending invite is never answered 200 when accepting
\* or rejecting that invite.
OnlyReceiverAcceptsOrRejects ==
    /\ \A cur \in Ids : \A uid \in Ids :
         \A rsp \in accept_circle_invite(circles, cur, uid)
                      \cup reject_circle_invite(circles, cur, uid) :
            rsp.status_code = 200 =>
                \E c \in circles : /\ c.requester_id = uid
                                   /\ c.receiver_id = cur
                                   /\ c.status = "pending"
    /\ \A c \in circles : c.status = "pending" =>
         \A rsp \in accept_circle_invite(circles, c.requester_id, c.receiver_id)
                      \cup reject_circle_invite(circles, c.requester_id, c.receiver_id) :
            rsp.status_code # 200 /\ rsp.circles = circles
    /\ (last.op \in {"accept", "reject"} /\ last.status_code = 200) =>
         \E c \in pre : /\ c.requester_id = last.uid
                        /\ c.receiver_id = last.cur
                        /\ c.status = "pending"

\* the requester of a pending invite tried to accept it and was refused
W_OnlyReceiverAcceptsOrRejects ==
    /\ last.op = "accept"
    /\ last.status_code = 404
    /\ \E c \in circles : /\ c.status = "pending"
                          /\ c.requester_id = last.cur
                          /\ c.receiver_id = last.uid

\* C4: in every step, a row that keeps its id and changes its status goes
\* from pending to accepted or from pending to rejected; an accepted or
\* rejected row never changes its status again.
StatusChangesOnlyFromPending ==
    [][\A c \in circles : \A d \in circles' :
          (c.id = d.id /\ c.status # d.status) =>
              (c.status = "pending" /\ d.status \in {"accepted", "rejected"})]_vars

\* the receiver tried to accept an invite already rejected and was refused
W_StatusChangesOnlyFromPending ==
    /\ last.op = "accept"
    /\ last.status_code = 404
    /\ \E c \in circles : /\ c.status = "rejected"
                          /\ c.requester_id = last.uid
                          /\ c.receiver_id = last.cur

\* C5: no row has requester = receiver, and Invite(A, A) answers 400
\* SelfReference and leaves the table alone in every state, for users with
\* and without a row in the users table.
NoSelfRelationship ==
    /\ \A c \in circles : c.requester_id # c.receiver_id
    /\ \A a \in Ids :
         invite_to_circle(circles, nextId, a, a)
            = {Response(400, SelfReference, circles, {})}
    /\ (last.op = "invite" /\ last.cur = last.uid) =>
         /\ last.status_code = 400
         /\ last.detail = SelfReference
         /\ circles = pre

\* a user invited themselves while the table was not empty
W_NoSelfRelationship ==
    /\ last.op = "invite"
    /\ last.cur = last.uid
    /\ circles # {}

\* C6: an Invite(A, B) answered 200 started from no row or a rejected row
\* of {A, B} and leaves exactly one row of {A, B}: pending, requester A,
\* receiver B; the table is never left as it was.
InviteSuccessCreatesPendingRow ==
    /\ \A cur \in Ids : \A uid \in Ids :
         \A rsp \in invite_to_circle(circles, nextId, cur, uid) :
            rsp.status_code = 200 =>
                /\ \A c \in RowsOfPair(circles, cur, uid) : c.status = "rejected"
                /\ Cardinality(RowsOfPair(rsp.circles, cur, uid)) = 1
                /\ \A c \in RowsOfPair(rsp.circles, cur, uid) :
                       /\ c.status = "pending"
                       /\ c.requester_id = cur
                       /\ c.receiver_id = uid
                /\ rsp.circles # circles
    /\ (last.op = "invite" /\ last.status_code = 200) =>
         /\ Cardinality(RowsOfPair(circles, last.cur, last.uid)) = 1
         /\ \A c \in RowsOfPair(circles, last.cur, last.uid) :
                /\ c.status = "pending"
                /\ c.requester_id = last.cur
                /\ c.receiver_id = last.uid
         /\ circles # pre

\* an invite succeeded for a pair without a row while another pair had one
W_InviteSuccessCreatesPendingRow ==
    /\ last.op = "invite"
    /\ last.status_code = 200
    /\ RowsOfPair(pre, last.cur, last.uid) = {}
    /\ pre # {}

\* C7: while A's invite to B is pending, Invite(A, B) answers 400
\* DuplicateInvite and leaves every row as it was, so that repeating the
\* call gives the same answer and the same table.
DuplicateInviteRefused ==
    /\ \A c \in circles : c.status = "pending" =>
         /\ invite_to_circle(circles, nextId, c.requester_id, c.receiver_id)
               = {Response(400, DuplicateInvite, circles, {})}
         /\ \A rsp \in invite_to_circle(circles, nextId, c.requester_id, c.receiver_id) :
               invite_to_circle(rsp.circles, nextId, c.requester_id, c.receiver_id)
                  = {rsp}
    /\ (/\ last.op = "invite"
        /\ \E c \in pre : /\ c.status = "pending"
                          /\ c.requester_id = last.cur
                          /\ c.receiver_id = last.uid) =>
         /\ last.status_code = 400
         /\ last.detail = DuplicateInvite
         /\ circles = pre

\* the requester of a pending invite invited again and was refused
W_DuplicateInviteRefused ==
    /\ last.op = "invite"
    /\ last.detail = DuplicateInvite
    /\ \E c \in circles : /\ c.status = "pending"
                          /\ c.requester_id = last.cur
                          /\ c.receiver_id = last.uid

\* C8: while B's invite to A is pending, Invite(A, B) answers 400
\* ReverseInvitePending: no row is added, the pending row is not accepted,
\* the table is unchanged.
ReverseInviteRefused ==
    /\ \A c \in circles : c.status = "pending" =>
         invite_to_circle(circles, nextId, c.receiver_id, c.requester_id)
            = {Response(400, ReverseInvitePending, circles, {})}
    /\ (/\ last.op = "invite"
        /\ \E c \in pre : /\ c.status = "pending"
                          /\ c.requester_id = last.uid
                          /\ c.receiver_id = last.cur) =>
         /\ last.status_code = 400
         /\ last.detail = ReverseInvitePending
         /\ circles = pre

\* the receiver of a pending invite invited the requester and was refused
W_ReverseInviteRefused ==
    /\ last.op = "invite"
    /\ last.status_code = 400
    /\ circles = pre
    /\ \E c \in circles : /\ c.status = "pending"
                          /\ c.requester_id = last.uid
                          /\ c.receiver_id = last.cur

\* C9: while an accepted row of {A, B} exists, Invite by A towards B and by
\* B towards A both answer 400 AlreadyConnected and leave the table
\* unchanged.
ConnectedInviteRefused ==
    /\ \A c \in circles : c.status = "accepted" =>
         /\ invite_to_circle(circles, nextId, c.requester_id, c.receiver_id)
               = {Response(400, AlreadyConnected, circles, {})}
         /\ invite_to_circle(circles, nextId, c.receiver_id, c.requester_id)
               = {Response(400, AlreadyConnected, circles, {})}
    /\ (/\ last.op = "invite"
        /\ \E c \in RowsOfPair(pre, last.cur, last.uid) : c.status = "accepted") =>
         /\ last.status_code = 400
         /\ last.detail = AlreadyConnected
         /\ circles = pre

\* the original receiver of an accepted row invited the original requester
W_ConnectedInviteRefused ==
    /\ last.op = "invite"
    /\ last.detail = AlreadyConnected
    /\ \E c \in circles : /\ c.status = "accepted"
                          /\ c.requester_id = last.uid
                          /\ c.receiver_id = last.cur

\* C10: while a rejected row of {A, B} exists, Invite by A towards B and by
\* B towards A both answer 200: the rejected row is gone, and the only row
\* of {A, B} is pending, has the caller as requester and an id that no row
\* had before.
ReinviteAfterReject ==
    /\ \A c \in circles : c.status = "rejected" =>
         \A cur \in {c.requester_id, c.receiver_id} :
            LET uid == IF cur = c.requester_id THEN c.receiver_id
                       ELSE c.requester_id
            IN  \A rsp \in invite_to_circle(circles, nextId, cur, uid) :
                   /\ rsp.status_code = 200
                   /\ c \notin rsp.circles
                   /\ Cardinality(RowsOfPair(rsp.circles, cur, uid)) = 1
                   /\ \A n \in RowsOfPair(rsp.circles, cur, uid) :
                          /\ n.status = "pending"
                          /\ n.requester_id = cur
                          /\ n.receiver_id = uid
                          /\ n.id \notin RowIds(circles)
    /\ (/\ last.op = "invite"
        /\ \E c \in RowsOfPair(pre, last.cur, last.uid) : c.status = "rejected") =>
         /\ last.status_code = 200
         /\ \A n \in RowsOfPair(circles, last.cur, last.uid) :
                /\ n.status = "pending"
                /\ n.requester_id = last.cur
                /\ n.id \notin RowIds(pre)

\* the user who had rejected an invite invited the former requester
W_ReinviteAfterReject ==
    /\ last.op = "invite"
    /\ last.status_code = 200
    /\ \E c \in pre : /\ c.status = "rejected"
                      /\ c.requester_id = last.uid
                      /\ c.receiver_id = last.cur
    /\ \E n \in circles : /\ n.status = "pending"
                          /\ n.requester_id = last.cur
                          /\ n.receiver_id = last.uid

\* C11: the re-invite path is all-or-nothing: while a request that read a
\* rejected row of {A, B} is between its delete and its insert, the table
\* shown to the other requests still holds that rejected row or already
\* holds the new pending row.
ReinviteAllOrNothing ==
    \A r \in Reqs :
        (/\ req[r].op = "invite"
         /\ req[r].pc \in {"delete", "insert"}
         /\ req[r].row # {}) =>
            \/ \E c \in circles : c.id \in RowIds(req[r].row)
            \/ \E n \in circles : /\ n.status = "pending"
                                  /\ n.requester_id = req[r].cur
                                  /\ n.receiver_id = req[r].uid

\* C12: for two distinct users, when the table holds no pending row from
\* otherUser to currentUser (no row of the pair, a pending row sent by
\* currentUser, or a row already accepted or rejected), Accept and Reject
\* answer 404 NoPendingInvite and leave the table unchanged.
NoPendingInviteRefused ==
    /\ \A cur \in Ids : \A uid \in Ids \ {cur} :
         (\A c \in RowsOfPair(circles, cur, uid) :
              \/ c.status \in {"accepted", "rejected"}
              \/ (c.status = "pending" /\ c.requester_id = cur)) =>
            /\ accept_circle_invite(circles, cur, uid)
                  = {Response(404, NoPendingInvite, circles, {})}
            /\ reject_circle_invite(circles, cur, uid)
                  = {Response(404, NoPendingInvite, circles, {})}
    /\ (/\ last.op \in {"accept", "reject"}
        /\ last.cur # last.uid
        /\ \A c \in RowsOfPair(pre, last.cur, last.uid) :
              \/ c.status \in {"accepted", "rejected"}
              \/ c.requester_id = last.cur) =>
         /\ last.status_code = 404
         /\ last.detail = NoPendingInvite
         /\ circles = pre

\* the receiver tried to reject an invite they had already accepted
W_NoPendingInviteRefused ==
    /\ last.op = "reject"
    /\ last.detail = NoPendingInvite
    /\ circles = pre
    /\ \E c \in circles : /\ c.status = "accepted"
                          /\ c.requester_id = last.uid
                          /\ c.receiver_id = last.cur

\* C13: a Reject answered 200 keeps the row: the row keeps its id,
\* requester and receiver and has status rejected, every other row and the
\* number of rows are unchanged; a rejected row leaves the table only in an
\* Invite answered 200 for its pair.
RejectKeepsRow ==
    /\ \A cur \in Ids : \A uid \in Ids :
         \A rsp \in reject_circle_invite(circles, cur, uid) :
            rsp.status_code = 200 =>
               \E c \in circles :
                  /\ c.requester_id = uid /\ c.receiver_id = cur
                  /\ c.status = "pending"
                  /\ rsp.circles = (circles \ {c}) \cup
                        {[id |-> c.id, requester_id |-> uid,
                          receiver_id |-> cur, status |-> "rejected"]}
                  /\ Cardinality(rsp.circles) = Cardinality(circles)
    /\ (last.op = "reject" /\ last.status_code = 200) =>
         /\ Cardinality(circles) = Cardinality(pre)
         /\ \E c \in circles : /\ c.status = "rejected"
                               /\ c.requester_id = last.uid
                               /\ c.receiver_id = last.cur
                               /\ c.id \in RowIds(pre)
    /\ \A c \in pre :
         (c.status = "rejected" /\ c \notin circles) =>
            /\ last.op = "invite"
            /\ last.status_code = 200
            /\ {last.cur, last.uid} = {c.requester_id, c.receiver_id}

\* an invite was rejected while another pair had a row, and both rows are
\* in the table
W_RejectKeepsRow ==
    /\ last.op = "reject"
    /\ last.status_code = 200
    /\ Cardinality(circles) = 2
    /\ \E c \in circles : /\ c.status = "rejected"
                          /\ c.requester_id = last.uid
                          /\ c.receiver_id = last.cur

\* C14: for two distinct users, Remove answers 200 exactly when the pair
\* has an accepted row, whichever endpoint calls, and then deletes that row
\* and no other; when the pair has no row, a pending row or a rejected row
\* it answers 404 NotConnected and leaves the table unchanged.
RemoveOnlyAccepted ==
    /\ \A cur \in Ids : \A uid \in Ids \ {cur} :
         LET acc == {c \in RowsOfPair(circles, cur, uid) : c.status = "accepted"}
         IN  IF acc # {}
             THEN /\ Cardinality(acc) = 1
                  /\ \A rsp \in remove_circle_connection(circles, cur, uid) :
                        /\ rsp.status_code = 200
                        /\ rsp.circles = circles \ acc
             ELSE remove_circle_connection(circles, cur, uid)
                     = {Response(404, NotConnected, circles, {})}
    /\ (last.op = "remove" /\ last.status_code = 200) =>
         /\ \E c \in pre : /\ c.status = "accepted"
                           /\ {c.requester_id, c.receiver_id} = {last.cur, last.uid}
                           /\ circles = pre \ {c}
    /\ (last.op = "remove" /\ last.status_code = 404) =>
         /\ last.detail = NotConnected
         /\ circles = pre
         /\ \A c \in RowsOfPair(pre, last.cur, last.uid) : c.status # "accepted"

\* the original receiver of an accepted row removed the connection, and the
\* row of another pair stayed
W_RemoveOnlyAccepted ==
    /\ last.op = "remove"
    /\ last.status_code = 200
    /\ \E c \in pre : /\ c.status = "accepted"
                      /\ c.requester_id = last.uid
                      /\ c.receiver_id = last.cur
    /\ Cardinality(circles) = 1

\* C15: right after a Remove(A, B) answered 200, Remove(B, A) and
\* Remove(A, B) both answer 404 NotConnected.
RemoveThenRemoveFails ==
    /\ \A cur \in Ids : \A uid \in Ids :
         \A rsp \in remove_circle_connection(circles, cur, uid) :
            rsp.status_code = 200 =>
               /\ remove_circle_connection(rsp.circles, uid, cur)
                     = {Response(404, NotConnected, rsp.circles, {})}
               /\ remove_circle_connection(rsp.circles, cur, uid)
                     = {Response(404, NotConnected, rsp.circles, {})}
    /\ (last.op = "remove" /\ last.status_code = 200) =>
         /\ remove_circle_connection(circles, last.uid, last.cur)
               = {Response(404, NotConnected, circles, {})}
         /\ remove_circle_connection(circles, last.cur, last.uid)
               = {Response(404, NotConnected, circles, {})}

\* a connection has just been removed by the user who had requested it
W_RemoveThenRemoveFails ==
    /\ last.op = "remove"
    /\ last.status_code = 200
    /\ \E c \in pre : /\ c.status = "accepted"
                      /\ c.requester_id = last.cur
                      /\ c.receiver_id = last.uid
    /\ RowsOfPair(circles, last.cur, last.uid) = {}

\* C16: ConnectionStatus(currentUser, otherUser) is (none, false) when the
\* pair has no row or a rejected row, (connected, false) when its row is
\* accepted, and (pending, requester = currentUser) when its row is
\* pending; hence (connected, false) for both parties right after an
\* Accept answered 200 and (none, false) right after a Remove answered 200.
ConnectionStatusCorrect ==
    /\ \A cur \in Ids : \A uid \in Ids :
         LET rows == RowsOfPair(circles, cur, uid) IN
         /\ (rows = {} \/ \E c \in rows : c.status = "rejected") =>
               get_connection_status(circles, cur, uid) = {<<"none", FALSE>>}
         /\ (\E c \in rows : c.status = "accepted") =>
               get_connection_status(circles, cur, uid) = {<<"connected", FALSE>>}
         /\ \A c \in rows : c.status = "pending" =>
               get_connection_status(circles, cur, uid)
                  = {<<"pending", c.requester_id = cur>>}
    /\ (last.op = "accept" /\ last.status_code = 200) =>
         /\ get_connection_status(circles, last.cur, last.uid) = {<<"connected", FALSE>>}
         /\ get_connection_status(circles, last.uid, last.cur) = {<<"connected", FALSE>>}
    /\ (last.op = "remove" /\ last.status_code = 200) =>
         /\ get_connection_status(circles, last.cur, last.uid) = {<<"none", FALSE>>}
         /\ get_connection_status(circles, last.uid, last.cur) = {<<"none", FALSE>>}

\* a connection made by an invite and its acceptance has just been removed
\* by the user who had sent the invite
W_ConnectionStatusCorrect ==
    /\ last.op = "remove"
    /\ last.status_code = 200
    /\ \E c \in pre : /\ c.status = "accepted"
                      /\ c.requester_id = last.cur
                      /\ c.receiver_id = last.uid
    /\ \E c \in circles : c.status = "pending"
    /\ get_connection_status(circles, last.cur, last.uid) = {<<"none", FALSE>>}

\* accepted rows of tbl that have u as requester or receiver
AcceptedRowsOf(tbl, u) ==
    {c \in tbl : c.status = "accepted" /\ u \in {c.requester_id, c.receiver_id}}

\* C17: ConnectionsCount(user) is the number of accepted rows with user as
\* requester or receiver, and the dashboard's connections_count is the same
\* number; an Invite answered 200 leaves the counts of both parties as they
\* were (0 when they have no other connection), an Accept answered 200
\* raises both by one (to 1), and pending and rejected rows count nothing.
ConnectionsCountCorrect ==
    /\ \A u \in Ids :
         /\ get_user_connections_count(circles, u)
               = Cardinality(AcceptedRowsOf(circles, u))
         /\ DashboardConnectionsCount(circles, u)
               = get_user_connections_count(circles, u)
         /\ (\A c \in circles : c.status \in {"pending", "rejected"}) =>
               get_user_connections_count(circles, u) = 0
    /\ (last.op = "invite" /\ last.status_code = 200) =>
         \A u \in {last.cur, last.uid} :
            /\ get_user_connections_count(circles, u)
                  = Cardinality(AcceptedRowsOf(pre, u))
            /\ Cardinality(circles) = 1 =>
                  get_user_connections_count(circles, u) = 0
    /\ (last.op = "accept" /\ last.status_code = 200) =>
         \A u \in {last.cur, last.uid} :
            /\ get_user_connections_count(circles, u)
                  = Cardinality(AcceptedRowsOf(pre, u)) + 1
            /\ Cardinality(circles) = 1 =>
                  get_user_connections_count(circles, u) = 1

\* an invite has just been accepted while the receiver also has a pending
\* or rejected row with a third user: both parties count 1
W_ConnectionsCountCorrect ==
    /\ last.op = "accept"
    /\ last.status_code = 200
    /\ \E c \in circles : /\ c.status \in {"pending", "rejected"}
                          /\ last.cur \in {c.requester_id, c.receiver_id}
    /\ get_user_connections_count(circles, last.cur) = 1
    /\ get_user_connections_count(circles, last.uid) = 1

\* the user ids a list of user responses shows
UsersShown(list) == {u.id : u \in UNION {e.user : e \in list}}

\* C18: PendingInvites(user) shows as received exactly the requesters of
\* the pending rows with receiver = user and as sent exactly the receivers
\* of the pending rows with requester = user, one item per row; a pending
\* row (A, B) is an item of A's sent list and of B's received list and of
\* no other list, and accepted and rejected rows are items of no list.
PendingInvitesCorrect ==
    /\ \A u \in Ids :
         LET p == get_pending_invites(circles, u)
             rcv == {c \in circles : c.receiver_id = u /\ c.status = "pending"}
             snt == {c \in circles : c.requester_id = u /\ c.status = "pending"}
         IN  /\ UsersShown(p.received_invites) = {c.requester_id : c \in rcv}
             /\ Cardinality(p.received_invites) = Cardinality(rcv)
             /\ UsersShown(p.sent_invites) = {c.receiver_id : c \in snt}
             /\ Cardinality(p.sent_invites) = Cardinality(snt)
    /\ \A c \in circles : \A u \in Ids :
         LET p == get_pending_invites(circles, u) IN
         /\ (\E e \in p.sent_invites : e.circle = c.id)
               <=> (c.status = "pending" /\ u = c.requester_id)
         /\ (\E e \in p.received_invites : e.circle = c.id)
               <=> (c.status = "pending" /\ u = c.receiver_id)

\* an invite has just been sent by a user who also has an accepted or a
\* rejected row: the sent list shows the new receiver only
W_PendingInvitesCorrect ==
    /\ last.op = "invite"
    /\ last.status_code = 200
    /\ \E c \in circles : /\ c.status \in {"accepted", "rejected"}
                          /\ last.cur \in {c.requester_id, c.receiver_id}
    /\ UsersShown(get_pending_invites(circles, last.cur).sent_invites) = {last.uid}
    /\ UsersShown(get_pending_invites(circles, last.uid).received_invites) = {last.cur}

\* C19: Connections(user) shows exactly the other endpoint of every
\* accepted row that has user as requester or receiver, each once, and its
\* total_count equals ConnectionsCount(user), whoever asks.
ConnectionsCorrect ==
    \A u \in Ids : \A cur \in Users :
        LET r == get_user_connections(circles, u, cur)
            acc == AcceptedRowsOf(circles, u)
        IN  /\ UsersShown(r.connections)
                  = {IF c.requester_id = u THEN c.receiver_id ELSE c.requester_id :
                        c \in acc}
            /\ u \notin UsersShown(r.connections)
            /\ Cardinality(r.connections) = Cardinality(UsersShown(r.connections))
            /\ r.total_count = Cardinality(acc)
            /\ r.total_count = get_user_connections_count(circles, u)

\* a user is connected to two others, once as requester and once as
\* receiver
W_ConnectionsCorrect ==
    \E u \in Users :
        /\ get_user_connections(circles, u, u).total_count = 2
        /\ \E c \in circles : c.status = "accepted" /\ c.requester_id = u
        /\ \E c \in circles : c.status = "accepted" /\ c.receiver_id = u
        /\ last.op = "accept"

\* C20: Invite(A, B) with A # B and B without a row in the users table
\* answers 404 TargetNotFound and leaves the table unchanged; both
\* endpoints of every row in the table are users.
InviteTargetMustExist ==
    /\ \A a \in Ids : \A b \in Ids \ Users :
         a # b =>
            invite_to_circle(circles, nextId, a, b)
               = {Response(404, TargetNotFound, circles, {})}
    /\ (last.op = "invite" /\ last.uid \notin Users /\ last.cur # last.uid) =>
         /\ last.status_code = 404
         /\ last.detail = TargetNotFound
         /\ circles = pre
    /\ \A c \in circles : c.requester_id \in Users /\ c.receiver_id \in Users

\* a user with a row in the table invited an identity that has no user row
W_InviteTargetMustExist ==
    /\ last.op = "invite"
    /\ last.uid = Ghost
    /\ last.status_code = 404
    /\ \E c \in circles : last.cur \in {c.requester_id, c.receiver_id}

\* C21: operations on one unordered pair are independent of the other
\* pairs: the status code, the detail and the rows of {A, B} that Invite,
\* Accept, Reject and Remove on {A, B} leave are those the same call gives
\* on the table cut down to the rows of {A, B}, and every row of every
\* other pair is left as it was.
PairIndependence ==
    /\ \A cur \in Ids : \A uid \in Ids :
         LET own == RowsOfPair(circles, cur, uid)
             Outcome(S) == {<<r.status_code, r.detail,
                              RowsOfPair(r.circles, cur, uid)>> : r \in S}
             Others(S) == {r.circles \ RowsOfPair(r.circles, cur, uid) : r \in S}
         IN  /\ Outcome(invite_to_circle(circles, nextId, cur, uid))
                   = Outcome(invite_to_circle(own, nextId, cur, uid))
             /\ Outcome(accept_circle_invite(circles, cur, uid))
                   = Outcome(accept_circle_invite(own, cur, uid))
             /\ Outcome(reject_circle_invite(circles, cur, uid))
                   = Outcome(reject_circle_invite(own, cur, uid))
             /\ Outcome(remove_circle_connection(circles, cur, uid))
                   = Outcome(remove_circle_connection(own, cur, uid))
             /\ Others(invite_to_circle(circles, nextId, cur, uid)
                       \cup accept_circle_invite(circles, cur, uid)
                       \cup reject_circle_invite(circles, cur, uid)
                       \cup remove_circle_connection(circles, cur, uid))
                   = {circles \ own}

\* an invite succeeded towards a user who had a pending invite from a third
\* user: the table holds both pending rows, the older one as it was
W_PairIndependence ==
    \E c \in circles : \E d \in circles :
        /\ c.status = "pending" /\ d.status = "pending"
        /\ c.receiver_id = d.receiver_id
        /\ c.requester_id # d.requester_id
        /\ c.id < d.id
        /\ \E rsp \in invite_to_circle(circles \ {d}, d.id, d.requester_id,
                                        d.receiver_id) :
              rsp.status_code = 200 /\ rsp.circles = circles

\* C22: a row is created only by an invite and always with status pending,
\* and every accepted row was first pending and was accepted by its
\* receiver, the rows written by the follows-to-circles migration
\* included: in every step, a row whose id is new is pending and is the
\* row of the Invite just answered, and a row that is accepted either was
\* accepted already or was pending and has just been accepted by its
\* receiver.
RowsBornPendingByInvite ==
    [][/\ \A d \in circles' :
            d.id \notin RowIds(circles) =>
                /\ d.status = "pending"
                /\ last'.op = "invite"
                /\ d.requester_id = last'.cur
                /\ d.receiver_id = last'.uid
       /\ \A d \in circles' :
            d.status = "accepted" =>
                \E c \in circles :
                    /\ c.id = d.id
                    /\ \/ c.status = "accepted"
                       \/ /\ c.status = "pending"
                          /\ last'.op = "accept"
                          /\ last'.cur = c.receiver_id]_vars

\* C23: the deprecated follow endpoints are aliases of the circle
\* operations: in every state POST /follow answers as Invite does and
\* leaves the same table, so that a follow answered 200 leaves one pending
\* row from the caller and no new connection; DELETE /unfollow answers as
\* Remove does and leaves the same table; GET /followers and GET
\* /following both return the list of Connections of the user.
FollowIsAlias ==
    /\ \A cur \in Ids : \A uid \in Ids :
         /\ follow_user_deprecated(circles, nextId, cur, uid)
               = invite_to_circle(circles, nextId, cur, uid)
         /\ unfollow_user_deprecated(circles, cur, uid)
               = remove_circle_connection(circles, cur, uid)
         /\ \A rsp \in follow_user_deprecated(circles, nextId, cur, uid) :
               /\ AcceptedRowsOf(rsp.circles, cur) \subseteq AcceptedRowsOf(circles, cur)
               /\ rsp.status_code = 200 =>
                     \E n \in rsp.circles :
                        /\ RowsOfPair(rsp.circles, cur, uid) = {n}
                        /\ n.status = "pending"
                        /\ n.requester_id = cur
    /\ \A u \in Ids : \A cur \in Users :
         /\ get_followers_deprecated(circles, u, cur)
               = get_user_connections(circles, u, cur).connections
         /\ get_following_deprecated(circles, u, cur)
               = get_user_connections(circles, u, cur).connections
         /\ UsersShown(get_followers_deprecated(circles, u, cur))
               = {IF c.requester_id = u THEN c.receiver_id ELSE c.requester_id :
                     c \in AcceptedRowsOf(circles, u)}
    /\ \A c \in circles : c.status = "pending" =>
         /\ c.requester_id \notin
               UsersShown(get_followers_deprecated(circles, c.receiver_id,
                                                   c.requester_id))
         /\ c.receiver_id \notin
               UsersShown(get_following_deprecated(circles, c.requester_id,
                                                   c.requester_id))

\* a follow can be answered 200 towards a user who has a follower already,
\* and one was: its pending row is in the table and its caller is not among
\* the followers
W_FollowIsAlias ==
    \E c \in circles :
        /\ c.status = "pending"
        /\ \E rsp \in follow_user_deprecated(circles \ {c}, c.id,
                                             c.requester_id, c.receiver_id) :
              rsp.status_code = 200 /\ rsp.circles = circles
        /\ UsersShown(get_followers_deprecated(circles, c.receiver_id,
                                               c.requester_id)) # {}
        /\ c.requester_id \notin
              UsersShown(get_followers_deprecated(circles, c.receiver_id,
                                                  c.requester_id))

\* C25: when two requests of the receiver for the same pending row overlap,
\* an Accept with a Reject or an Accept with a second Accept, they are not
\* both answered 200: one succeeds, the other fails, and the status of the
\* row is written once.
ConcurrentAcceptRejectOneWins ==
    \A r1 \in Reqs : \A r2 \in Reqs \ {r1} :
        ~ /\ req[r1].op = "accept"
          /\ req[r2].op \in {"accept", "reject"}
          /\ req[r1].cur = req[r2].cur
          /\ req[r1].uid = req[r2].uid
          /\ r2 \in req[r1].overlap
          /\ req[r1].pc = "done" /\ req[r2].pc = "done"
          /\ req[r1].status_code = 200 /\ req[r2].status_code = 200

\* what ConnectionStatus(cur, u) is by the rows of the pair
StatusByRows(tbl, cur, u) ==
    LET rows == RowsOfPair(tbl, cur, u) IN
    IF \E c \in rows : c.status = "accepted" THEN <<"connected", FALSE>>
    ELSE IF \E c \in rows : c.status = "pending"
         THEN <<"pending", \E c \in rows : c.status = "pending" /\ c.requester_id = cur>>
         ELSE <<"none", FALSE>>

\* C24: Search never returns the caller, changes no row, and gives every
\* user U it returns with connection_status and is_invited_by_me equal to
\* ConnectionStatus(caller, U) and connections_count equal to
\* ConnectionsCount(U), in every reachable state.
SearchAnnotatesUsers ==
    /\ \A cur \in Users : \A q \in Queries : \A limit \in Limits :
         \A list \in search_users(circles, q, limit, cur) :
            \A e \in list :
               /\ e.id # cur
               /\ e.user =
                     {[id |-> e.id,
                       connection_status |-> StatusByRows(circles, cur, e.id)[1],
                       is_invited_by_me |-> StatusByRows(circles, cur, e.id)[2],
                       connections_count |->
                           Cardinality(AcceptedRowsOf(circles, e.id))]}
    /\ last.op = "search" => circles = pre

\* the receiver of a pending invite has just searched, and the search for
\* every user can show the requester as pending and not invited by the
\* caller
W_SearchAnnotatesUsers ==
    /\ last.op = "search"
    /\ \E c \in circles :
          /\ c.status = "pending"
          /\ c.receiver_id = last.cur
          /\ \E list \in search_users(circles, <<"%">>, 50, last.cur) :
                \E e \in list :
                   /\ e.id = c.requester_id
                   /\ \E r \in e.user : /\ r.connection_status = "pending"
                                        /\ ~r.is_invited_by_me

\* C26: a pending invite cannot be withdrawn or altered by its requester:
\* while the row (A, B) is pending, Invite, Accept, Reject and Remove
\* called by A on B all fail and leave the table as it was, and of all the
\* calls of all users only an Accept or a Reject answered 200 that B calls
\* on A leaves the row other than it was: accepted or rejected.
RequesterCannotWithdraw ==
    /\ \A c \in circles : c.status = "pending" =>
         \A rsp \in invite_to_circle(circles, nextId, c.requester_id, c.receiver_id)
                      \cup accept_circle_invite(circles, c.requester_id, c.receiver_id)
                      \cup reject_circle_invite(circles, c.requester_id, c.receiver_id)
                      \cup remove_circle_connection(circles, c.requester_id, c.receiver_id) :
            /\ rsp.status_code \in {400, 404}
            /\ rsp.circles = circles
    /\ \A c \in circles : c.status = "pending" =>
         \A cur \in Users : \A uid \in Ids :
            /\ \A rsp \in invite_to_circle(circles, nextId, cur, uid)
                           \cup remove_circle_connection(circles, cur, uid) :
                   c \in rsp.circles
            /\ \A rsp \in accept_circle_invite(circles, cur, uid)
                           \cup reject_circle_invite(circles, cur, uid) :
                   c \notin rsp.circles =>
                      /\ rsp.status_code = 200
                      /\ cur = c.receiver_id
                      /\ uid = c.requester_id
                      /\ \E d \in rsp.circles :
                            /\ d.id = c.id
                            /\ d.requester_id = c.requester_id
                            /\ d.receiver_id = c.receiver_id
                            /\ d.status \in {"accepted", "rejected"}

\* a pending invite stands while its requester is connected to a third
\* user: the requester can remove that connection, not the invite
W_RequesterCannotWithdraw ==
    \E c \in circles : \E d \in circles :
        /\ c.status = "pending"
        /\ d.status = "accepted"
        /\ c.requester_id \in {d.requester_id, d.receiver_id}
        /\ \A rsp \in remove_circle_connection(circles, c.requester_id,
                                                c.receiver_id) :
              rsp.status_code = 404 /\ rsp.circles = circles

\* a table with the ids of its rows left out
WithoutIds(tbl) ==
    {[requester_id |-> c.requester_id, receiver_id |-> c.receiver_id,
      status |-> c.status] : c \in tbl}

\* C27: a rejected row is as good as no row: in every state, for every
\* rejected row of a pair {A, B}, the table without that row gives the
\* same status code and detail for Invite, Accept, Reject and Remove by A
\* and by B, and the same ConnectionStatus, ConnectionsCount,
\* PendingInvites, Connections and Search results for every user; and a
\* successful Invite leaves the two tables equal up to row ids.
RejectedRowIsNoRow ==
    \A c \in circles : c.status = "rejected" =>
        LET without == circles \ {c}
            Outcome(S) == {<<r.status_code, r.detail>> : r \in S}
        IN  /\ \A cur \in {c.requester_id, c.receiver_id} :
                 \A uid \in {c.requester_id, c.receiver_id} \ {cur} :
                    /\ Outcome(invite_to_circle(circles, nextId, cur, uid))
                          = Outcome(invite_to_circle(without, nextId, cur, uid))
                    /\ Outcome(accept_circle_invite(circles, cur, uid))
                          = Outcome(accept_circle_invite(without, cur, uid))
                    /\ Outcome(reject_circle_invite(circles, cur, uid))
                          = Outcome(reject_circle_invite(without, cur, uid))
                    /\ Outcome(remove_circle_connection(circles, cur, uid))
                          = Outcome(remove_circle_connection(without, cur, uid))
                    /\ {WithoutIds(r.circles) :
                           r \in {x \in invite_to_circle(circles, nextId, cur, uid) :
                                     x.status_code = 200}}
                          = {WithoutIds(r.circles) :
                               r \in {x \in invite_to_circle(without, nextId, cur, uid) :
                                         x.status_code = 200}}
            /\ \A cur \in Users : \A u \in Ids :
                    /\ get_connection_status(circles, cur, u)
                          = get_connection_status(without, cur, u)
                    /\ get_user_connections_count(circles, u)
                          = get_user_connections_count(without, u)
                    /\ get_user_connections(circles, u, cur)
                          = get_user_connections(without, u, cur)
            /\ \A cur \in Users :
                    /\ get_pending_invites(circles, cur)
                          = get_pending_invites(without, cur)
                    /\ \A q \in Queries : \A limit \in Limits :
                          search_users(circles, q, limit, cur)
                             = search_users(without, q, limit, cur)

\* an invite was rejected while another pair is connected, and the
\* requester can invite again as if there were no row
W_RejectedRowIsNoRow ==
    \E c \in circles :
        /\ c.status = "rejected"
        /\ \E d \in circles : d.status = "accepted"
        /\ \E rsp \in invite_to_circle(circles, nextId, c.requester_id,
                                        c.receiver_id) :
              rsp.status_code = 200

\* C28: ConnectionStatus is consistent between the two parties in every
\* reachable state: ConnectionStatus(A, B) and ConnectionStatus(B, A) give
\* the same status; when it is pending exactly one of the two gives
\* is_invited_by_me = true, the one asked by the requester; when it is none
\* or connected both give false.
ConnectionStatusSymmetric ==
    \A a \in Ids : \A b \in Ids \ {a} :
        \A s \in get_connection_status(circles, a, b) :
            \A t \in get_connection_status(circles, b, a) :
                /\ s[1] = t[1]
                /\ s[1] \in {"none", "connected"} => (~s[2] /\ ~t[2])
                /\ s[1] = "pending" =>
                      /\ s[2] # t[2]
                      /\ s[2] <=> \E c \in circles : /\ c.status = "pending"
                                                     /\ c.requester_id = a
                                                     /\ c.receiver_id = b

\* an invite stands between two users while one of them is connected to
\* the third: the sender sees (pending, true), the receiver (pending, false)
W_ConnectionStatusSymmetric ==
    \E c \in circles : \E d \in circles :
        /\ c.status = "pending"
        /\ d.status = "accepted"
        /\ get_connection_status(circles, c.requester_id, c.receiver_id)
              = {<<"pending", TRUE>>}
        /\ get_connection_status(circles, c.receiver_id, c.requester_id)
              = {<<"pending", FALSE>>}

StoredLately(k) == {c \in cache_store[k] : now - c.timestamp < expire}

\* C30: in every step of a call of a function wrapped with
\* cache_response(expire): a call that finds an entry of its key stored less
\* than expire seconds ago returns the stored value, leaves the store alone
\* and never executes the function; a call that finds no entry, or one aged
\* expire seconds or more, goes on to execute the function; the function is
\* executed only after such a miss; and the store step of a call puts the
\* function's result with the current time under the key, so no value older
\* than expire is served.
CacheServesFreshOnly ==
    [][\A t \in Threads :
        /\ (call[t].pc = "idle" /\ call'[t].pc # "idle") =>
               IF StoredLately(call'[t].key) # {}
               THEN /\ call'[t].pc = "done"
                    /\ call'[t].hit
                    /\ \A c \in cache_store[call'[t].key] :
                           call'[t].value = c.cached_data
                    /\ cache_store' = cache_store
               ELSE /\ call'[t].pc = "exec"
                    /\ ~call'[t].hit
        /\ (call'[t].pc = "exec" => call[t].pc \in {"idle", "exec"})
        /\ (call'[t].pc = "store" /\ call[t].pc # "store") =>
               /\ call[t].pc = "exec"
               /\ call'[t].value \in Values
        /\ (call[t].pc = "store" /\ call'[t].pc # "store") =>
               /\ call'[t].pc = "done"
               /\ cache_store'[call[t].key] =
                      {[cached_data |-> call[t].value, timestamp |-> now']}
               /\ \A k \in CacheKeys \ {call[t].key} :
                      cache_store'[k] = cache_store[k]
        /\ (call'[t].pc = "done" /\ call[t].pc = "done") =>
               call'[t] = call[t]
    ]_vars

\* witness: with expire = 2, one call was served an entry aged 1 second while
\* another call had found an entry aged 2 seconds or more, executed the
\* function and stored its result
W_CacheServesFreshOnly ==
    /\ expire = 2
    /\ \E t, u \in Threads :
        /\ call[t].pc = "done" /\ call[t].hit /\ call[t].age = 1
        /\ call[u].pc = "done" /\ ~call[u].hit /\ call[u].age >= 2
        /\ call[t].key = call[u].key
====
